---- MODULE Spec2Model ----
(***************************************************************************)
(* Model of the shady CSS parser, src/src/shady-css/parser.ts.             *)
(*                                                                         *)
(* The parser is a synchronous recursive descent over a token stream:      *)
(* parse is a function of its input.  Its functions are recursive          *)
(* operators that thread the tokenizer cursor, the node factory's call log *)
(* and the error flag through a record t; the one action applies parse to  *)
(* an input drawn by Init.                                                 *)
(*                                                                         *)
(* Token, Tokenizer and NodeFactory live in files that are imported by     *)
(* parser.ts (./token, ./tokenizer, ./node-factory); they are modelled     *)
(* from their description in the specification.                            *)
(***************************************************************************)
EXTENDS Integers, Sequences, FiniteSets, TLC

VARIABLES
    cssText,    \* the source text, a sequence of characters
    tokens,     \* the token stream of cssText: records [type, start, end]
    pos,        \* index of tokenizer.currentToken in tokens (> Len: null)
    rules,      \* the `rules` array parseRules built
    log,        \* nodes made by the node factory, in call order
    trace,      \* one record per parseRule call that returned
    dcalls,     \* one record per parseDeclarationOrRuleset call
    acalls,     \* one record per parseAtRule call
    pc,         \* "parse", "done" or "error" (an exception escaped)
    result,     \* the Stylesheet returned by parse
    earlier     \* dcalls of the parse call made before this one, if any

vars ==
    <<cssText, tokens, pos, rules, log, trace, dcalls, acalls, pc, result,
      earlier>>

\* Length in characters of the longest text drawn as input.
MaxLen == 5

-----------------------------------------------------------------------------
(* Token kinds and the token stream                                        *)

Kinds ==
    {"whitespace", "comment", "word", "at", "openBrace", "closeBrace",
     "openParenthesis", "closeParenthesis", "colon", "semicolon"}

\* The source text of a token of each kind.
KindText(k) ==
    CASE k = "whitespace" -> <<" ">>
      [] k = "comment" -> <<"/", "*", "*", "/">>
      [] k = "word" -> <<"a">>
      [] k = "at" -> <<"@">>
      [] k = "openBrace" -> <<"{">>
      [] k = "closeBrace" -> <<"}">>
      [] k = "openParenthesis" -> <<"(">>
      [] k = "closeParenthesis" -> <<")">>
      [] k = "colon" -> <<":">>
      [] k = "semicolon" -> <<";">>

\* token.is(type): kinds are flat; propertyBoundary and boundary are
\* categories that several kinds satisfy.
Is(k, type) ==
    CASE type = "propertyBoundary" -> k \in {"semicolon", "closeBrace"}
      [] type = "boundary" ->
            k \in {"semicolon", "closeBrace", "openBrace",
                   "openParenthesis", "closeParenthesis"}
      [] OTHER -> k = type

\* A run of whitespace or of word characters is one token (longest match),
\* so the tokenizer never yields two such tokens in a row.
Producible(ks) ==
    \A i \in 1..(Len(ks) - 1) :
        ~(ks[i] = ks[i + 1] /\ ks[i] \in {"whitespace", "word"})

RECURSIVE TextOf(_)
TextOf(ks) ==
    IF ks = <<>> THEN <<>> ELSE KindText(Head(ks)) \o TextOf(Tail(ks))

\* The tokens of a text made of the given kinds, with their offsets.
Tokenize(ks) ==
    [i \in 1..Len(ks) |->
        [type |-> ks[i],
         start |-> Len(TextOf(SubSeq(ks, 1, i - 1))),
         end |-> Len(TextOf(SubSeq(ks, 1, i)))]]

N == Len(tokens)

\* A token is named by its index in the stream; 0 is null / undefined.
NoToken == 0

\* tokenizer.currentToken at cursor p
Cur(p) == IF p <= N THEN p ELSE NoToken

\* token.previous, token.next
Previous(tok) == IF tok > 1 THEN tok - 1 ELSE NoToken
NextOf(tok) == IF tok # NoToken /\ tok < N THEN tok + 1 ELSE NoToken

TokIs(tok, type) == Is(tokens[tok].type, type)

\* tokenizer.getRange(startToken, endToken): the end token defaults to the
\* start token.
getRange(startTok, endTok) ==
    [start |-> tokens[startTok].start,
     end |-> tokens[IF endTok # NoToken THEN endTok ELSE startTok].end]

\* cssText.slice(start, end) with 0-based offsets
slice(range) == SubSeq(cssText, range.start + 1, range.end)

IsSpace(c) == c = " "

\* tokenizer.trimRange: narrows a range to exclude the whitespace at its
\* two ends.
RECURSIVE TrimStart(_, _)
TrimStart(s, e) ==
    IF s < e /\ IsSpace(cssText[s + 1]) THEN TrimStart(s + 1, e) ELSE s

RECURSIVE TrimEnd(_, _)
TrimEnd(s, e) ==
    IF s < e /\ IsSpace(cssText[e]) THEN TrimEnd(s, e - 1) ELSE e

trimRange(range) ==
    LET s == TrimStart(range.start, range.end)
    IN  [start |-> s, end |-> TrimEnd(s, range.end)]

-----------------------------------------------------------------------------
(* Node factory: each operation assembles a node from the values given    *)

NullNode == [type |-> "null"]
NoRange == [start |-> -1, end |-> -1]

stylesheet(rs, range) == [type |-> "stylesheet", rules |-> rs, range |-> range]
comment(text, range) == [type |-> "comment", value |-> text, range |-> range]
discarded(text, range) == [type |-> "discarded", text |-> text, range |-> range]
expression(text, range) == [type |-> "expression", text |-> text, range |-> range]
rulelist(rs, range) == [type |-> "rulelist", rules |-> rs, range |-> range]

declaration(name, value, nameRange, range) ==
    [type |-> "declaration", name |-> name, value |-> value,
     nameRange |-> nameRange, range |-> range]

ruleset(selector, rl, selectorRange, range) ==
    [type |-> "ruleset", selector |-> selector, rulelist |-> rl,
     selectorRange |-> selectorRange, range |-> range]

atRule(name, parameters, rl, nameRange, parametersRange, range) ==
    [type |-> "atRule", name |-> name, parameters |-> parameters,
     rulelist |-> rl, nameRange |-> nameRange,
     parametersRange |-> parametersRange, range |-> range]

-----------------------------------------------------------------------------
(* The parser.  t is the state threaded through the descent:               *)
(*   pos   the tokenizer's cursor                                          *)
(*   log, trace, dcalls, acalls   as the variables of the same name        *)
(*   err   an exception was raised (null dereference)                      *)
(* Every function returns [t, node]; node is NullNode for null.            *)

Ret(t, node) == [t |-> t, node |-> node]
Throw(t) == Ret([t EXCEPT !.err = TRUE], NullNode)
Emit(t, node) == [t EXCEPT !.log = Append(@, node)]

\* tokenizer.advance() moves the cursor past the current token, if any.
Advance(p) == IF p <= N THEN p + 1 ELSE p

\* while (currentToken && currentToken.is(type)) advance();
RECURSIVE SkipWhile(_, _)
SkipWhile(p, type) ==
    IF p <= N /\ TokIs(p, type) THEN SkipWhile(p + 1, type) ELSE p

\* The skip over parentheses ended by a semicolon as well.
RECURSIVE SkipToCloseParenOrSemicolon(_)
SkipToCloseParenOrSemicolon(p) ==
    IF p <= N /\ ~TokIs(p, "closeParenthesis") /\ ~TokIs(p, "semicolon")
    THEN SkipToCloseParenOrSemicolon(p + 1) ELSE p

\* while (currentToken && !currentToken.is(closeParenthesis)) advance();
RECURSIVE SkipToCloseParen(_)
SkipToCloseParen(p) ==
    IF p <= N /\ ~TokIs(p, "closeParenthesis")
    THEN SkipToCloseParen(p + 1) ELSE p

\* The last token a loop from p to q advanced over (undefined if none).
LastAdvanced(p, q) == IF q > p THEN q - 1 ELSE NoToken

parseComment(t) ==
    LET token == Cur(t.pos)
    IN  IF token = NoToken THEN Ret(t, NullNode)
        ELSE LET node == comment(slice(getRange(token, NoToken)),
                                 [start |-> tokens[token].start,
                                  end |-> tokens[token].end])
             IN  Ret(Emit([t EXCEPT !.pos = Advance(t.pos)], node), node)

\* parseUnknown without its loop over the boundary tokens that follow.
parseUnknownOneToken(t) ==
    LET start == Cur(t.pos)
    IN  IF start = NoToken THEN Ret(t, NullNode)
        ELSE LET node == discarded(slice(getRange(start, NoToken)),
                                   getRange(start, NoToken))
             IN  Ret(Emit([t EXCEPT !.pos = Advance(t.pos)], node), node)

parseUnknown(t) ==
    LET start == Cur(t.pos)
        p1 == Advance(t.pos)
        p2 == SkipWhile(p1, "boundary")
        end == LastAdvanced(p1, p2)
    IN  IF start = NoToken THEN Ret(t, NullNode)
        ELSE LET node == discarded(slice(getRange(start, end)),
                                   getRange(start, end))
             IN  Ret(Emit([t EXCEPT !.pos = p2], node), node)

\* The scan loop of parseDeclarationOrRuleset; s holds the cursor and the
\* locals ruleStart, ruleEnd and colon.
RECURSIVE ScanDeclarationOrRuleset(_)
ScanDeclarationOrRuleset(s) ==
    IF s.pos > N THEN s
    ELSE IF TokIs(s.pos, "whitespace")
    THEN ScanDeclarationOrRuleset([s EXCEPT !.pos = s.pos + 1])
    ELSE IF TokIs(s.pos, "openParenthesis")
    THEN ScanDeclarationOrRuleset([s EXCEPT !.pos = SkipToCloseParen(s.pos)])
    ELSE IF TokIs(s.pos, "openBrace") \/ TokIs(s.pos, "propertyBoundary")
    THEN s
    ELSE ScanDeclarationOrRuleset(
            [pos |-> s.pos + 1,
             ruleStart |-> IF s.ruleStart = NoToken THEN s.pos ELSE s.ruleStart,
             ruleEnd |-> s.pos,
             colon |-> IF TokIs(s.pos, "colon") THEN s.pos ELSE s.colon])

\* tokenizer.currentToken && tokenizer.currentToken.previous || ruleEnd
PreviousOrRuleEnd(p, ruleEnd) ==
    IF Cur(p) # NoToken /\ Previous(Cur(p)) # NoToken
    THEN Previous(Cur(p)) ELSE ruleEnd

\* The loops over parseRule are followed for as long as no more calls of
\* parseRule have returned than the input has tokens; C2 shows that they
\* end before.
CutOff(t) == Len(t.trace) > N

\* The rule put at the front of the array instead of at its end.
PushRuleFront(s, r) ==
    [s EXCEPT !.t = r.t,
              !.rules = IF ~r.t.err /\ r.node.type # "null"
                        THEN <<r.node>> \o @ ELSE @]

\* if (rule) { rules.push(rule); } with r what parseRule returned
PushRule(s, r) ==
    [s EXCEPT !.t = r.t,
              !.rules = IF ~r.t.err /\ r.node.type # "null"
                        THEN Append(@, r.node) ELSE @]

RECURSIVE parseRule(_)
RECURSIVE parseRulelist(_)
RECURSIVE RulelistLoop(_)
RECURSIVE parseDeclarationOrRuleset(_)
RECURSIVE parseAtRule(_)
RECURSIVE AtRuleLoop(_)

\* The while loop of parseRulelist; s holds t, rules, endToken and whether
\* the loop was left by break.
RulelistLoop(s) ==
    IF s.t.err \/ s.brk \/ Cur(s.t.pos) = NoToken \/ CutOff(s.t) THEN s
    ELSE IF TokIs(s.t.pos, "closeBrace")
    THEN [s EXCEPT !.endToken = s.t.pos, !.t.pos = s.t.pos + 1, !.brk = TRUE]
    ELSE RulelistLoop(PushRule(s, parseRule(s.t)))

\* The end of parseRulelist: s is the state its loop was left in.
RulelistNode(start, s) ==
    LET end == IF s.endToken # NoToken THEN tokens[s.endToken].end
               ELSE Len(cssText)
        node == rulelist(s.rules, [start |-> start, end |-> end])
    IN  IF s.t.err THEN Ret(s.t, NullNode)
        ELSE Ret(Emit(s.t, node), node)

parseRulelist(t) ==
    IF Cur(t.pos) = NoToken THEN Throw(t)
    ELSE RulelistNode(tokens[t.pos].start,
                      RulelistLoop([t |-> [t EXCEPT !.pos = Advance(t.pos)],
                                    rules |-> <<>>, endToken |-> NoToken,
                                    brk |-> FALSE]))

\* tokenizer.getRange(colon.next, ruleEnd), with ruleEnd.previous in place
\* of ruleEnd.
RawExpressionRangeBeforeRuleEnd(s) ==
    [start |-> tokens[NextOf(s.colon)].start,
     end |-> tokens[Previous(s.ruleEnd)].end]

\* rawExpressionRange: tokenizer.getRange(colon.next, ruleEnd)
RawExpressionRange(s) == getRange(NextOf(s.colon), s.ruleEnd)

\* The branch of parseDeclarationOrRuleset taken at a propertyBoundary.
DeclarationBranch(t, s) ==
    LET nameRange == getRange(s.ruleStart,
                              IF s.colon # NoToken THEN Previous(s.colon)
                              ELSE s.ruleEnd)
        declarationName == slice(nameRange)
        hasExpression == s.colon # NoToken /\ NextOf(s.colon) # NoToken
        expressionRange == trimRange(RawExpressionRange(s))
        expr == IF hasExpression
                THEN expression(slice(expressionRange), expressionRange)
                ELSE NullNode
        t1 == IF hasExpression THEN Emit(t, expr) ELSE t
        p1 == IF TokIs(s.pos, "semicolon") THEN Advance(s.pos) ELSE s.pos
        range == trimRange(getRange(s.ruleStart,
                                    PreviousOrRuleEnd(p1, s.ruleEnd)))
        node == declaration(declarationName, expr, nameRange, range)
    IN  Ret(Emit([t1 EXCEPT !.pos = p1], node), node)

\* The mixin branch after its parseRulelist call, which returned r.
MixinDeclaration(s, r) ==
    LET p == r.t.pos
    IN  IF r.t.err THEN Ret(r.t, NullNode)
        ELSE IF Cur(p) = NoToken THEN Throw(r.t)
        ELSE
        LET p1 == IF TokIs(p, "semicolon") THEN Advance(p) ELSE p
            nameRange == getRange(s.ruleStart, Previous(s.ruleEnd))
            declarationName == slice(nameRange)
            range == trimRange(getRange(s.ruleStart,
                                        PreviousOrRuleEnd(p1, s.ruleEnd)))
            node == declaration(declarationName, r.node, nameRange, range)
        IN  Ret(Emit([r.t EXCEPT !.pos = p1], node), node)

\* The mixin branch: colon && colon === ruleEnd, at an openBrace.
MixinBranch(t, s) ==
    MixinDeclaration(s, parseRulelist([t EXCEPT !.pos = s.pos]))

\* The end of a Ruleset taken from the current token instead of from
\* the token before it.
RulesetEndAtCurrent(p, ruleStart) ==
    IF Cur(p) # NoToken THEN tokens[Cur(p)].end ELSE Len(cssText)

\* The end of a Ruleset's range, p being the cursor after its rulelist.
RulesetEnd(p, ruleStart) ==
    IF Cur(p) # NoToken
    THEN IF Previous(Cur(p)) # NoToken
         THEN tokens[Previous(Cur(p))].end
         ELSE tokens[ruleStart].end
    ELSE Len(cssText)

\* The ruleset branch after its parseRulelist call, which returned r.
RulesetNode(s, r) ==
    LET selectorRange == getRange(s.ruleStart, s.ruleEnd)
        selector == slice(selectorRange)
        p == r.t.pos
        start == tokens[s.ruleStart].start
        end == RulesetEnd(p, s.ruleStart)
        node == ruleset(selector, r.node, selectorRange,
                        [start |-> start, end |-> end])
    IN  IF r.t.err THEN Ret(r.t, NullNode)
        ELSE Ret(Emit(r.t, node), node)

\* The ruleset branch.
RulesetBranch(t, s) ==
    RulesetNode(s, parseRulelist([t EXCEPT !.pos = s.pos]))

\* The early return at the end of input replaced by a Discarded made of
\* the tokens scanned.
DeclarationOrRulesetBodyPartialAtEnd(t, s) ==
    IF Cur(s.pos) = NoToken
    THEN LET node == discarded(slice(getRange(s.ruleStart, s.ruleEnd)),
                               getRange(s.ruleStart, s.ruleEnd))
         IN  Ret(Emit([t EXCEPT !.pos = s.pos], node), node)
    ELSE IF s.ruleStart = NoToken THEN Throw([t EXCEPT !.pos = s.pos])
    ELSE IF TokIs(s.pos, "propertyBoundary") THEN DeclarationBranch(t, s)
    ELSE IF s.colon # NoToken /\ s.colon = s.ruleEnd THEN MixinBranch(t, s)
    ELSE RulesetBranch(t, s)

DeclarationOrRulesetBody(t, s) ==
    IF Cur(s.pos) = NoToken THEN Ret([t EXCEPT !.pos = s.pos], NullNode)
    ELSE IF s.ruleStart = NoToken THEN Throw([t EXCEPT !.pos = s.pos])
    ELSE IF TokIs(s.pos, "propertyBoundary") THEN DeclarationBranch(t, s)
    ELSE IF s.colon # NoToken /\ s.colon = s.ruleEnd THEN MixinBranch(t, s)
    ELSE RulesetBranch(t, s)

\* Records in dcalls a call made at cursor p whose scan ended in s and
\* which returned r.
RecordDeclarationOrRuleset(p, s, r) ==
    LET call == [start |-> p, stop |-> s.pos, ruleStart |-> s.ruleStart,
                 ruleEnd |-> s.ruleEnd, colon |-> s.colon,
                 node |-> r.node, err |-> r.t.err, after |-> r.t.pos]
    IN  Ret([r.t EXCEPT !.dcalls = Append(@, call)], r.node)

\* parseDeclarationOrRuleset once its scan loop has ended in s.
AfterScan(t, s) ==
    RecordDeclarationOrRuleset(t.pos, s, DeclarationOrRulesetBody(t, s))

parseDeclarationOrRuleset(t) ==
    AfterScan(t, ScanDeclarationOrRuleset(
                    [pos |-> t.pos, ruleStart |-> NoToken,
                     ruleEnd |-> NoToken, colon |-> NoToken]))

\* rulelist = this.parseRulelist(tokenizer); break;
TakeRulelist(s, r) ==
    [s EXCEPT !.t = r.t, !.rulelist = r.node, !.brk = TRUE]

\* The while loop of parseAtRule; s holds t and the locals.
AtRuleLoop(s) ==
    IF s.t.err \/ s.brk \/ Cur(s.t.pos) = NoToken THEN s
    ELSE
    LET p == s.t.pos
    IN  IF TokIs(p, "whitespace")
        THEN AtRuleLoop([s EXCEPT !.t.pos = p + 1])
        ELSE IF (~s.defined \/ s.name = <<>>) /\ TokIs(p, "at")
        THEN LET start == Cur(p + 1)
                 p2 == SkipWhile(p + 1, "word")
                 end == LastAdvanced(p + 1, p2)
             IN  IF start = NoToken
                 THEN [s EXCEPT !.t.pos = p + 1, !.t.err = TRUE]
                 ELSE AtRuleLoop(
                        [s EXCEPT !.t.pos = p2, !.defined = TRUE,
                                  !.nameRange = getRange(start, end),
                                  !.name = slice(getRange(start, end))])
        ELSE IF TokIs(p, "openBrace")
        THEN TakeRulelist(s, parseRulelist(s.t))
        ELSE IF TokIs(p, "propertyBoundary")
        THEN [s EXCEPT !.t.pos = p + 1, !.brk = TRUE]
        ELSE IF s.parametersStart = NoToken
        THEN AtRuleLoop([s EXCEPT !.t.pos = p + 1, !.parametersStart = p])
        ELSE AtRuleLoop([s EXCEPT !.t.pos = p + 1, !.parametersEnd = p])

\* The end of an AtRule taken from the current token instead of from the
\* token before it.
AtRuleEndAtCurrent(p) ==
    IF Cur(p) # NoToken THEN tokens[Cur(p)].end ELSE Len(cssText)

\* The end of an AtRule's range, p being the cursor after the loop.
AtRuleEnd(p) ==
    IF Cur(p) # NoToken THEN tokens[Previous(Cur(p))].end
    ELSE Len(cssText)

\* The end of parseAtRule: s is the state its loop was left in.
AtRuleNode(start, s) ==
    LET p == s.t.pos
        parametersRange ==
            IF s.parametersStart # NoToken
            THEN trimRange(getRange(s.parametersStart, s.parametersEnd))
            ELSE NoRange
        parameters ==
            IF s.parametersStart # NoToken THEN slice(parametersRange)
            ELSE <<>>
        end == AtRuleEnd(p)
        node == atRule(s.name, parameters, s.rulelist, s.nameRange,
                       parametersRange, [start |-> start, end |-> end])
    IN  IF s.t.err THEN Ret(s.t, NullNode)
        ELSE IF ~s.defined THEN Ret(s.t, NullNode)
        ELSE Ret(Emit(s.t, node), node)

AtRuleBody(t) ==
    IF Cur(t.pos) = NoToken THEN Ret(t, NullNode)
    ELSE AtRuleNode(tokens[t.pos].start,
                    AtRuleLoop([t |-> t, defined |-> FALSE, name |-> <<>>,
                                nameRange |-> NoRange, rulelist |-> NullNode,
                                parametersStart |-> NoToken,
                                parametersEnd |-> NoToken, brk |-> FALSE]))

\* Records in acalls a call made at cursor p which returned r.
RecordAtRule(p, r) ==
    LET call == [at |-> p, node |-> r.node, err |-> r.t.err,
                 after |-> r.t.pos]
    IN  Ret([r.t EXCEPT !.acalls = Append(@, call)], r.node)

parseAtRule(t) == RecordAtRule(t.pos, AtRuleBody(t))

\* The whitespace branch of parseRule without its advance().
WhitespaceRuleNoAdvance(t) == Ret(t, NullNode)

\* The whitespace branch of parseRule.
WhitespaceRule(t) == Ret([t EXCEPT !.pos = Advance(t.pos)], NullNode)

RuleDispatch(t) ==
    LET token == Cur(t.pos)
    IN  IF token = NoToken THEN Ret(t, NullNode)
        ELSE IF TokIs(token, "whitespace") THEN WhitespaceRule(t)
        ELSE IF TokIs(token, "comment") THEN parseComment(t)
        ELSE IF TokIs(token, "word") THEN parseDeclarationOrRuleset(t)
        ELSE IF TokIs(token, "propertyBoundary") THEN parseUnknown(t)
        ELSE IF TokIs(token, "at") THEN parseAtRule(t)
        ELSE parseUnknown(t)

\* Records in trace a call made at cursor p which returned r.
RecordRule(p, r) ==
    LET call == [before |-> p, after |-> r.t.pos, type |-> r.node.type]
    IN  IF r.t.err THEN r
        ELSE Ret([r.t EXCEPT !.trace = Append(@, call)], r.node)

parseRule(t) == RecordRule(t.pos, RuleDispatch(t))

\* The while loop of parseRules; s holds t and rules.
RECURSIVE ParseRulesLoop(_)
ParseRulesLoop(s) ==
    IF s.t.err \/ Cur(s.t.pos) = NoToken \/ CutOff(s.t) THEN s
    ELSE ParseRulesLoop(PushRule(s, parseRule(s.t)))

parseRules(t) == ParseRulesLoop([t |-> t, rules |-> <<>>])

\* The Stylesheet of the rules r that parseRules returned. Yields
\* [t, node, rules]: rules is the array parseRules built.
StylesheetNode(r) ==
    LET node == stylesheet(r.rules, [start |-> 0, end |-> Len(cssText)])
    IN  IF r.t.err THEN [t |-> r.t, node |-> NullNode, rules |-> r.rules]
        ELSE [t |-> Emit(r.t, node), node |-> node, rules |-> r.rules]

parseStylesheet(t) == StylesheetNode(parseRules(t))

-----------------------------------------------------------------------------
(* The state machine: parse(cssText)                                       *)

\* A Parser and the Tokenizer of parse(cssText) have been constructed: the
\* cursor is at the start of the text and no node has been made.
Init ==
    /\ \E n \in 0..MaxLen :
         \E ks \in [1..n -> Kinds] :
            /\ Producible(ks)
            /\ Len(TextOf(ks)) <= MaxLen
            /\ tokens = Tokenize(ks)
            /\ cssText = TextOf(ks)
    /\ pos = 1
    /\ rules = <<>>
    /\ log = <<>>
    /\ trace = <<>>
    /\ dcalls = <<>>
    /\ acalls = <<>>
    /\ pc = "parse"
    /\ result = NullNode
    /\ earlier = <<>>

Thread ==
    [pos |-> pos, log |-> log, trace |-> trace, dcalls |-> dcalls,
     acalls |-> acalls, err |-> FALSE]

\* parse runs parseStylesheet to its end: it returns the Stylesheet or an
\* exception escapes.
Parse ==
    /\ pc = "parse"
    /\ \E r \in {parseStylesheet(Thread)} :
           /\ pos' = r.t.pos
           /\ log' = r.t.log
           /\ trace' = r.t.trace
           /\ dcalls' = r.t.dcalls
           /\ acalls' = r.t.acalls
           /\ rules' = r.rules
           /\ result' = r.node
           /\ pc' = IF r.t.err THEN "error" ELSE "done"
    /\ UNCHANGED <<cssText, tokens, earlier>>

Next == Parse

Spec == Init /\ [][Next]_vars

\* parse is called again on the same Parser, with the text cut right after
\* one of its semicolons: the Tokenizer of the new call is constructed.
NewParse ==
    /\ pc \in {"done", "error"}
    /\ \E k \in 1..(N - 1) :
          /\ tokens[k].type = "semicolon"
          /\ tokens' = SubSeq(tokens, 1, k)
          /\ cssText' = SubSeq(cssText, 1, tokens[k].end)
    /\ earlier' = dcalls
    /\ pos' = 1
    /\ rules' = <<>>
    /\ log' = <<>>
    /\ trace' = <<>>
    /\ dcalls' = <<>>
    /\ acalls' = <<>>
    /\ pc' = "parse"
    /\ result' = NullNode

NextTwice == Parse \/ NewParse

\* parse called on a text and then on prefixes of it.
SpecTwice == Init /\ [][NextTwice]_vars

-----------------------------------------------------------------------------
(* Properties                                                              *)

Min(S) == CHOOSE x \in S : \A y \in S : x <= y
Max(S) == CHOOSE x \in S : \A y \in S : x >= y

Calls(log_) == {log_[i] : i \in DOMAIN log_}

\* The scan of a parseDeclarationOrRuleset call stopped at a token of type.
StoppedAt(c, type) == c.stop <= N /\ TokIs(c.stop, type)

Contains(outer, inner) ==
    outer.start <= inner.start /\ inner.end <= outer.end

WellFormed(range) ==
    0 <= range.start /\ range.start <= range.end /\ range.end <= Len(cssText)

TokenRange(i) == [start |-> tokens[i].start, end |-> tokens[i].end]

\* Every rules sequence built so far: the one of parseRules and the one of
\* every Rulelist and Stylesheet handed to the factory.
RulesSequences ==
    {rules} \cup
    {log[i].rules : i \in {j \in DOMAIN log :
                              log[j].type \in {"rulelist", "stylesheet"}}}

\* C1: parse never raises an error, whatever the input.
C1_ParseNeverThrows == pc # "error"

\* C2: every parseRule call that returned consumed at least one token, so
\* the calls made are at most as many as the tokens of the input.
C2_ForwardProgress ==
    /\ \A i \in DOMAIN trace : trace[i].after > trace[i].before
    /\ Len(trace) <= N

\* a Ruleset was parsed whose block holds a rule of its own
C2_Witness ==
    /\ pc = "done"
    /\ \E i, j \in DOMAIN trace :
          /\ trace[i].type = "ruleset"
          /\ tokens[trace[i].before].type = "word"
          /\ trace[i].before < trace[j].before
          /\ trace[j].after <= trace[i].after

\* C3: in the Stylesheet returned, every token that is not whitespace lies
\* inside the range of exactly one top-level rule.
C3_EveryTokenCovered ==
    pc = "done" =>
        \A i \in 1..N :
            tokens[i].type # "whitespace" =>
                Cardinality({j \in DOMAIN result.rules :
                    Contains(result.rules[j].range, TokenRange(i))}) = 1

\* C4: in every rules sequence, a rule ends before the next one starts.
C4_SiblingsOrdered ==
    \A rs \in RulesSequences :
        \A i \in 1..(Len(rs) - 1) : rs[i].range.end <= rs[i + 1].range.start

\* two rules at the top level and two rules inside one block
C4_Witness ==
    /\ pc = "done"
    /\ Len(rules) >= 2
    /\ \E i \in DOMAIN log : log[i].type = "rulelist" /\ Len(log[i].rules) >= 2

\* The sub-ranges and children of a node that its range has to contain.
Parts(node) ==
    CASE node.type = "declaration" ->
            {node.nameRange} \cup
            (IF node.value.type # "null" THEN {node.value.range} ELSE {})
      [] node.type = "ruleset" -> {node.selectorRange, node.rulelist.range}
      [] node.type = "atRule" ->
            {node.nameRange} \cup
            (IF node.parametersRange # NoRange
             THEN {node.parametersRange} ELSE {}) \cup
            (IF node.rulelist.type # "null" THEN {node.rulelist.range} ELSE {})
      [] node.type \in {"rulelist", "stylesheet"} ->
            {node.rules[j].range : j \in DOMAIN node.rules}
      [] OTHER -> {}

\* C5: the range of every node made contains its sub-ranges and children.
C5_RangeContainsParts ==
    \A i \in DOMAIN log : \A r \in Parts(log[i]) : Contains(log[i].range, r)

\* Every range handed to the factory with a node.
Ranges(node) ==
    {node.range} \cup
    (CASE node.type = "declaration" -> {node.nameRange}
       [] node.type = "ruleset" -> {node.selectorRange}
       [] node.type = "atRule" ->
            {node.nameRange} \cup
            (IF node.parametersRange # NoRange
             THEN {node.parametersRange} ELSE {})
       [] OTHER -> {})

\* C6: every range handed to the node factory lies within the text and
\* does not end before it starts.
C6_RangesWellFormed ==
    \A i \in DOMAIN log : \A r \in Ranges(log[i]) : WellFormed(r)

\* a declaration was made whose value is empty: only whitespace stands
\* between its colon and its semicolon (a: ;)
C6_Witness ==
    /\ pc = "done"
    /\ \E c \in Calls(dcalls) :
          /\ c.node.type = "declaration"
          /\ c.node.value.type = "expression"
          /\ c.node.value.range.start = c.node.value.range.end
          /\ c.colon = c.ruleEnd
          /\ tokens[c.colon + 1].type = "whitespace"
          /\ StoppedAt(c, "semicolon")

\* Token i lies strictly between an openParenthesis at or after `from` and
\* the next closeParenthesis.
InParentheses(i, from) ==
    \E j \in from..(i - 1) :
        /\ tokens[j].type = "openParenthesis"
        /\ \A k \in (j + 1)..i : tokens[k].type # "closeParenthesis"

\* The tokens a parseDeclarationOrRuleset call scanned outside parentheses,
\* whitespace apart.
Scanned(c) ==
    {i \in c.start..(c.stop - 1) :
        /\ tokens[i].type \notin {"whitespace", "openParenthesis"}
        /\ ~InParentheses(i, c.start)}

Colons(c) == {i \in Scanned(c) : tokens[i].type = "colon"}

\* The Declaration the call returned splits the scanned span at colon k.
SplitsAt(c, k) ==
    LET first == Min(Scanned(c))
        last == Max(Scanned(c))
        valueRange == trimRange([start |-> tokens[k].end,
                                 end |-> tokens[last].end])
    IN  /\ c.node.type = "declaration"
        /\ c.node.nameRange = [start |-> tokens[first].start,
                               end |-> tokens[k].start]
        /\ c.node.name = slice(c.node.nameRange)
        /\ c.node.value.type = "expression"
        /\ c.node.value.range = valueRange
        /\ c.node.value.text = slice(valueRange)

\* The Declaration the call returned has the whole span as name, no value.
WholeSpanIsName(c) ==
    /\ c.node.type = "declaration"
    /\ c.node.nameRange = [start |-> tokens[Min(Scanned(c))].start,
                           end |-> tokens[Max(Scanned(c))].end]
    /\ c.node.name = slice(c.node.nameRange)
    /\ c.node.value.type = "null"

\* C7: a scan that stops at a propertyBoundary yields a Declaration split at
\* the first colon seen outside parentheses: the name is the text before
\* it, the value the trimmed text after it; without a colon the name is the
\* whole span and there is no value.
C7_SplitAtFirstColon ==
    \A c \in Calls(dcalls) :
        StoppedAt(c, "propertyBoundary") =>
            IF Colons(c) = {} THEN WholeSpanIsName(c)
            ELSE SplitsAt(c, Min(Colons(c)))

\* The last token before the one the scan stopped at that is not whitespace.
LastBeforeStop(c) ==
    Max({i \in c.start..(c.stop - 1) : tokens[i].type # "whitespace"})

\* The call returned the mixin form: a Declaration whose value is the
\* Rulelist parsed from the brace, named by everything before the colon.
IsMixinOf(c) ==
    /\ ~c.err
    /\ c.node.type = "declaration"
    /\ c.node.value.type = "rulelist"
    /\ c.node.value.range.start = tokens[c.stop].start
    /\ c.node.nameRange = [start |-> tokens[c.start].start,
                           end |-> tokens[LastBeforeStop(c)].start]
    /\ c.node.name = slice(c.node.nameRange)

\* The call returned a Ruleset: selector from the first to the last scanned
\* token, rulelist parsed from the brace.
IsRulesetOf(c) ==
    /\ ~c.err
    /\ c.node.type = "ruleset"
    /\ c.node.selectorRange = [start |-> tokens[c.start].start,
                               end |-> tokens[LastBeforeStop(c)].end]
    /\ c.node.selector = slice(c.node.selectorRange)
    /\ c.node.rulelist.type = "rulelist"
    /\ c.node.rulelist.range.start = tokens[c.stop].start

\* C8: a scan that stops at an openBrace yields the mixin form of
\* Declaration if and only if the last token before the brace that is not
\* whitespace is a colon; in every other case it yields a Ruleset.
C8_MixinIffColonLast ==
    \A c \in Calls(dcalls) :
        StoppedAt(c, "openBrace") =>
            IF TokIs(LastBeforeStop(c), "colon") THEN IsMixinOf(c)
            ELSE IsRulesetOf(c)

\* The maximal run of word tokens that directly follows the '@' of a call.
WordRun(c) ==
    {i \in (c.at + 1)..N : \A k \in (c.at + 1)..i : tokens[k].type = "word"}

\* C9: the name of an AtRule is the text of the run of word tokens that
\* directly follows the '@'; without such a run parseAtRule returns null.
C9_NameIsWordRun ==
    \A c \in Calls(acalls) :
        IF WordRun(c) = {} THEN c.err \/ c.node.type = "null"
        ELSE c.node.type = "atRule" =>
                /\ c.node.nameRange = [start |-> tokens[Min(WordRun(c))].start,
                                       end |-> tokens[Max(WordRun(c))].end]
                /\ c.node.name = slice(c.node.nameRange)

\* Where the at-rule of a call ends: the first openBrace or
\* propertyBoundary after the name, N + 1 if there is none.
AfterName(c) == IF WordRun(c) = {} THEN c.at + 1 ELSE Max(WordRun(c)) + 1
Terminator(c) ==
    Min({i \in AfterName(c)..N :
            TokIs(i, "openBrace") \/ TokIs(i, "propertyBoundary")}
        \cup {N + 1})

\* The tokens accumulated as parameters.
ParameterTokens(c) ==
    {i \in AfterName(c)..(Terminator(c) - 1) : tokens[i].type # "whitespace"}

ParametersAsAccumulated(c) ==
    IF ParameterTokens(c) = {}
    THEN c.node.parameters = <<>> /\ c.node.parametersRange = NoRange
    ELSE LET r == trimRange([start |-> tokens[Min(ParameterTokens(c))].start,
                             end |-> tokens[Max(ParameterTokens(c))].end])
         IN  c.node.parametersRange = r /\ c.node.parameters = slice(r)

\* C10: an at-rule runs to the first openBrace (it carries the Rulelist
\* parsed from it), to the first propertyBoundary (consumed, no rulelist) or
\* to the end of input (no rulelist); its range goes from the '@' to the
\* end of the last token consumed and its parameters are the trimmed text
\* of the tokens in between.
C10_AtRuleExtent ==
    \A c \in Calls(acalls) :
        ~c.err =>
            /\ c.node.type = "atRule"
            /\ IF Terminator(c) <= N /\ TokIs(Terminator(c), "openBrace")
               THEN /\ c.node.rulelist.type = "rulelist"
                    /\ c.node.rulelist.range.start = tokens[Terminator(c)].start
                    /\ c.node.rulelist.range.end = c.node.range.end
               ELSE /\ c.node.rulelist.type = "null"
                    /\ c.after = Min({Terminator(c) + 1, N + 1})
            /\ c.node.range = [start |-> tokens[c.at].start,
                               end |-> tokens[c.after - 1].end]
            /\ c.after > N => c.node.range.end = Len(cssText)
            /\ ParametersAsAccumulated(c)

\* an at-rule with a word as name, parameters and a block was parsed
C10_Witness ==
    /\ pc = "done"
    /\ \E c \in Calls(acalls) :
          /\ c.node.type = "atRule"
          /\ WordRun(c) # {}
          /\ c.node.parameters # <<>>
          /\ c.node.rulelist.type = "rulelist"

\* The call's construct has a block: its scan stopped at an openBrace.
HasBlock(c) == StoppedAt(c, "openBrace")

\* The at-rule of the call has a block: it runs to an openBrace.
AtRuleHasBlock(c) ==
    Terminator(c) <= N /\ TokIs(Terminator(c), "openBrace")

\* The Rulelist of the node a call with a block returned.
BlockOf(node) ==
    IF node.type = "declaration" THEN node.value
    ELSE IF node.type \in {"ruleset", "atRule"} THEN node.rulelist
    ELSE NullNode

\* The input ended inside or right after the block of call c, yet the call
\* made its node: a Rulelist from the brace to the end of text or to a '}',
\* held by a node that was added to a rules sequence.
Tolerated(c, brace, types) ==
    /\ ~c.err
    /\ c.node.type \in types
    /\ BlockOf(c.node).type = "rulelist"
    /\ BlockOf(c.node).range.start = tokens[brace].start
    /\ \/ BlockOf(c.node).range.end = Len(cssText)
       \/ \E k \in (brace + 1)..N :
             /\ tokens[k].type = "closeBrace"
             /\ BlockOf(c.node).range.end = tokens[k].end
    /\ \E rs \in RulesSequences : \E i \in DOMAIN rs : rs[i] = c.node

\* C11: when the input ends inside or right after the block of a ruleset,
\* of an at-rule or of a mixin-form declaration, parse completes without
\* error, the Rulelist ends at the end of text (or at its '}') and the
\* Ruleset, AtRule or Declaration is made and added to its parent's rules.
C11_UnterminatedBlocksTolerated ==
    /\ \A c \in Calls(dcalls) :
          HasBlock(c) /\ c.after > N =>
              /\ pc # "error"
              /\ Tolerated(c, c.stop, {"ruleset", "declaration"})
    /\ \A c \in Calls(acalls) :
          AtRuleHasBlock(c) /\ c.after > N =>
              /\ pc # "error"
              /\ Tolerated(c, Terminator(c), {"atRule"})

\* The kinds of token at which parseRule dispatches to parseUnknown.
UnknownKinds == Kinds \ {"whitespace", "comment", "word", "at"}

\* The first token after `from` that is not in the boundary category,
\* N + 1 if there is none.
BoundaryRunEnd(from) ==
    Min({k \in (from + 1)..N : ~TokIs(k, "boundary")} \cup {N + 1})

\* The Discarded nodes made whose range starts within the tokens
\* from..(to - 1).
MadeWithin(from, to) ==
    {j \in DOMAIN log :
        /\ log[j].type = "discarded"
        /\ tokens[from].start <= log[j].range.start
        /\ log[j].range.start < tokens[to - 1].end}

\* C12: a parseRule call at a token that is not whitespace, comment, word
\* or at consumes that token and the maximal run of boundary tokens that
\* directly follows it, and makes exactly one node for them: a Discarded
\* whose range goes from the start of the first to the end of the last
\* token consumed and whose text is that slice of the source.
C12_RecoverySpan ==
    \A i \in DOMAIN trace :
        tokens[trace[i].before].type \in UnknownKinds =>
            /\ trace[i].type = "discarded"
            /\ trace[i].after = BoundaryRunEnd(trace[i].before)
            /\ \E j \in DOMAIN log :
                  /\ MadeWithin(trace[i].before, trace[i].after) = {j}
                  /\ log[j].range = [start |-> tokens[trace[i].before].start,
                                     end |-> tokens[trace[i].after - 1].end]
                  /\ log[j].text = slice(log[j].range)

\* a colon and the two boundary tokens after it were discarded together,
\* and the token after them was left as the current one
C12_Witness ==
    /\ pc = "done"
    /\ \E i \in DOMAIN trace :
          /\ tokens[trace[i].before].type = "colon"
          /\ trace[i].type = "discarded"
          /\ trace[i].after = trace[i].before + 3
          /\ trace[i].after <= N

\* The nodes of a set that start at or after the first token of call c.
StartingFrom(c, nodes) ==
    {n \in nodes : n.range.start >= tokens[c.start].start}

\* C13: a parseDeclarationOrRuleset call whose scan reaches the end of
\* input returns null with every token consumed; no Declaration, Expression,
\* Ruleset or Discarded is made for what it scanned and nothing of it is
\* added to a rules sequence.
C13_AbandonedAtEnd ==
    \A c \in Calls(dcalls) :
        c.stop > N =>
            /\ ~c.err
            /\ c.node.type = "null"
            /\ c.after = N + 1
            /\ StartingFrom(c, {n \in Calls(log) :
                    n.type \in {"declaration", "expression", "ruleset",
                                "discarded"}}) = {}
            /\ \A rs \in RulesSequences : StartingFrom(c, Calls(rs)) = {}

\* inside the block of a Ruleset, a name and a colon were scanned when
\* the input ended
C13_Witness ==
    /\ pc = "done"
    /\ \E c, outer \in Calls(dcalls) :
          /\ c.stop > N
          /\ c.colon # NoToken
          /\ outer.node.type = "ruleset"
          /\ outer.stop < c.start

\* Token i would stop the scan of a parseDeclarationOrRuleset call.
StopKind(i) == TokIs(i, "openBrace") \/ TokIs(i, "propertyBoundary")

\* Where the scan of call c has to stop: at the first openBrace or
\* propertyBoundary that is not between an openParenthesis and the next
\* closeParenthesis, N + 1 if there is none.
ScanStop(c) ==
    Min({i \in c.start..N : StopKind(i) /\ ~InParentheses(i, c.start)}
        \cup {N + 1})

\* The openParenthesis tokens the scan of call c met that no later
\* closeParenthesis follows.
Unclosed(c) ==
    {j \in c.start..(ScanStop(c) - 1) :
        /\ tokens[j].type = "openParenthesis"
        /\ ~InParentheses(j, c.start)
        /\ \A k \in (j + 1)..N : tokens[k].type # "closeParenthesis"}

\* C14: the scan of parseDeclarationOrRuleset passes every token between
\* an openParenthesis and the next closeParenthesis, whatever its kind,
\* without stopping at it and without taking it as the colon; the first
\* closeParenthesis ends the skip, no depth being kept; an openParenthesis
\* that is never closed makes the scan run to the end of input and the
\* call return null.
C14_ParenthesesSkipped ==
    \A c \in Calls(dcalls) :
        /\ c.stop = ScanStop(c)
        /\ c.colon # NoToken => ~InParentheses(c.colon, c.start)
        /\ Unclosed(c) # {} => c.stop > N /\ c.node.type = "null"

\* a scan passed a semicolon, a brace or a colon inside parentheses and
\* stopped at a later token
C14_Witness ==
    /\ pc = "done"
    /\ \E c \in Calls(dcalls) :
          /\ c.stop <= N
          /\ \E i \in c.start..(c.stop - 1) :
                /\ InParentheses(i, c.start)
                /\ StopKind(i) \/ tokens[i].type = "colon"

\* C15: over one parse, the start offsets of the ranges of the nodes handed
\* to successive factory operations never decrease, so that a parent is
\* made no later than the nodes nested in it.
C15_CreatedInSourceOrder ==
    \A i \in 1..(Len(log) - 1) : log[i].range.start <= log[i + 1].range.start

\* The rules of a node that holds a sequence of rules.
RulesOf(node) ==
    IF node.type \in {"rulelist", "stylesheet"} THEN node.rules ELSE <<>>

\* The nodes directly nested in a node.
Children(node) ==
    CASE node.type = "declaration" ->
            IF node.value.type # "null" THEN {node.value} ELSE {}
      [] node.type \in {"ruleset", "atRule"} ->
            IF node.rulelist.type # "null" THEN {node.rulelist} ELSE {}
      [] OTHER -> Calls(RulesOf(node))

\* C15 (amended): the factory operations of one parse run bottom-up in
\* source order: every node is made after the nodes nested in it, and the
\* rules of one sequence are made in the order in which they stand in it.
C15_CreatedBottomUp ==
    \A j \in DOMAIN log :
        /\ \A ch \in Children(log[j]) : \E i \in 1..(j - 1) : log[i] = ch
        /\ \A a, b \in DOMAIN RulesOf(log[j]) :
              a < b => \E ia, ib \in 1..(j - 1) :
                          /\ ia < ib
                          /\ log[ia] = RulesOf(log[j])[a]
                          /\ log[ib] = RulesOf(log[j])[b]

\* a sequence of two rules was made, the first a Declaration with a value
C15_Witness ==
    /\ pc = "done"
    /\ \E j \in DOMAIN log :
          /\ Len(RulesOf(log[j])) >= 2
          /\ RulesOf(log[j])[1].type = "declaration"
          /\ RulesOf(log[j])[1].value.type = "expression"

\* The tokens of a kind among the tokens from..to.
OfKind(kind, from, to) == {k \in from..to : tokens[k].type = kind}

\* parseRule call i was made from inside parseRulelist: it lies within
\* another parseRule call.
InsideRulelist(i) ==
    \E j \in DOMAIN trace :
        /\ trace[j].before < trace[i].before
        /\ trace[i].after <= trace[j].after

\* The closeBrace at k closes a block opened within the tokens from..k.
OpenedWithin(from, k) ==
    Cardinality(OfKind("openBrace", from, k - 1)) >
        Cardinality(OfKind("closeBrace", from, k - 1))

\* The closeBrace that matches the openBrace at j, N + 1 if there is none.
MatchingClose(j) ==
    Min({k \in OfKind("closeBrace", j + 1, N) :
            Cardinality(OfKind("openBrace", j + 1, k - 1)) =
                Cardinality(OfKind("closeBrace", j + 1, k - 1))}
        \cup {N + 1})

\* The token that starts at an offset.
TokenAt(offset) == CHOOSE k \in 1..N : tokens[k].start = offset

NoParentheses ==
    OfKind("openParenthesis", 1, N) \cup OfKind("closeParenthesis", 1, N) = {}

\* C16: a parseRule call made from inside parseRulelist consumes a
\* closeBrace only together with the openBrace it matches; so, in an input
\* without parentheses, the range of every Rulelist ends at the closeBrace
\* that matches its openBrace (at the end of text if there is none).
C16_BracesMatched ==
    /\ \A i \in DOMAIN trace :
          InsideRulelist(i) =>
              \A k \in OfKind("closeBrace", trace[i].before,
                              trace[i].after - 1) :
                  OpenedWithin(trace[i].before, k)
    /\ NoParentheses =>
          \A j \in DOMAIN log :
              log[j].type = "rulelist" =>
                  log[j].range.end =
                      IF MatchingClose(TokenAt(log[j].range.start)) <= N
                      THEN tokens[MatchingClose(
                               TokenAt(log[j].range.start))].end
                      ELSE Len(cssText)

\* Call c made the Declaration that ends with the last token of the text,
\* a semicolon it consumed.
EndsTheText(c) ==
    /\ c.node.type = "declaration"
    /\ c.after = N + 1
    /\ tokens[N].type = "semicolon"

\* C17: the Declaration made for a construct that ends with the semicolon
\* at the end of a text p has the same range, nameRange and value as the
\* Declaration made for it when the text goes on after p.
C17_SuffixIndependent ==
    pc = "done" /\ earlier # <<>> =>
        \A c \in Calls(dcalls) :
            EndsTheText(c) =>
                \E d \in Calls(earlier) :
                    /\ d.start = c.start
                    /\ d.node.type = "declaration"
                    /\ d.node.range = c.node.range
                    /\ d.node.nameRange = c.node.nameRange
                    /\ d.node.value = c.node.value

====
